---- MODULE Spec2Model ----
(***************************************************************************)
(* Model of the aggregation and comparison engine of the sales dashboard   *)
(* (sales_comparison_app.py): create_comparison_table builds the table     *)
(* keyed by asin, create_sku_level_data the table keyed by sku.            *)
(*                                                                         *)
(* Representation.  A DataFrame is a sequence of records (its rows, in     *)
(* index order).  skus and asins are strings in the program; here they are *)
(* positive naturals standing for the strings in their lexicographic       *)
(* order, so that sorted() is the numeric order.  Percent                  *)
(* changes are kept in tenths of a percent and prices in cents, so that    *)
(* round(x, 1) and round(2) are roundings to an integer.  A call that      *)
(* raises is a table with status "KeyError" and no rows.                   *)
(***************************************************************************)
EXTENDS Integers, Sequences, FiniteSets, TLC

\* ---------------------------------------------------------------- bounds
MaxLen       == 2    \* sales records of one year
MaxRecords   == 3    \* sales records of the two years together
MaxInventory == 2    \* inventory records
YearsAhead   == 4    \* today is in 2024 .. 2024 + YearsAhead
MaxStored    == 2    \* records of a stored csv file
MaxFiles     == 2    \* .txt files of a sales directory
MaxRawRows   == 2    \* rows of a sales directory, all files together

\* ------------------------------------------------------ program constants
NA  == 0             \* the 'N/A' asin of a sku row that has no asin
Sep == 0             \* the ', ' between two skus of the SKUs column
NotANumber == -2     \* a quantity text that is no number
NaN == -1            \* a missing value of a column (NaN, NaT, None)

\* ------------------------------------------------------- input alphabets
\* The (sku, asin) pairs of the order lines and inventory lines: skus 1 and 2
\* are variants of asin 1, and sku 2 is also listed under asin 2.
Listing  == {<<1, 1>>, <<2, 1>>, <<2, 2>>}
Sku      == {l[1] : l \in Listing}
Asin     == {l[2] : l \in Listing}
Month    == 1..2
Quantity == 0..2
Stock    == 0..1
Price    == 1..2     \* cents

SalesRecord ==
    {[sku |-> l[1], asin |-> l[2], month |-> m, quantity |-> q] :
        l \in Listing, m \in Month, q \in Quantity}

InventoryRecord ==
    {[sku |-> l[1], asin |-> l[2], current_inventory |-> i, current_price |-> p] :
        l \in Listing, i \in Stock, p \in Price}

VARIABLES
    \* sales_comparison_app.py, the two table functions
    year_2024_data, year_2025_data, inventory_data,
    comparison_df, sku_level_df,
    \* sales_comparison_app.py, the cutoff dates of the script
    today, cutoff_2025, cutoff_2024,
    \* preprocess_data.py and the loaders of sales_comparison_app.py
    raw_sales,       \* the <year>_Sales directories
    raw_inventory,   \* Inventory.txt
    cleaned_data,    \* the files of the cleaned_data directory, by name
    returned,        \* what each preprocess function returned
    loaded           \* what each load function returned

table_vars    == <<year_2024_data, year_2025_data, inventory_data,
                   comparison_df, sku_level_df>>
cutoff_vars   == <<today, cutoff_2025, cutoff_2024>>
pipeline_vars == <<raw_sales, raw_inventory, cleaned_data, returned, loaded>>

vars == <<table_vars, cutoff_vars, pipeline_vars>>

\* ------------------------------------------------------- pandas primitives
SeqsUpTo(S, n) == UNION {[1..k -> S] : k \in 0..n}

Range(s) == {s[i] : i \in DOMAIN s}

\* df[col].sum()
RECURSIVE SumCol(_, _)
SumCol(df, col) ==
    IF df = <<>> THEN 0 ELSE Head(df)[col] + SumCol(Tail(df), col)

\* the rows of one group of df.groupby(col), in index order
Group(df, col, k) == SelectSeq(df, LAMBDA r : r[col] = k)

\* the group keys of df.groupby(col); dropna=True is the default: rows whose
\* key is missing are in no group
GroupKeys(df, col) == {df[i][col] : i \in DOMAIN df} \ {NaN}

\* sorted(set(...))
RECURSIVE sorted(_)
sorted(S) ==
    IF S = {} THEN <<>>
    ELSE LET m == CHOOSE x \in S : \A y \in S : x <= y
         IN  <<m>> \o sorted(S \ {m})

\* ', '.join(x)
RECURSIVE join(_)
join(x) ==
    IF Len(x) <= 1 THEN x ELSE <<Head(x), Sep>> \o join(Tail(x))

\* round(num / den) to the nearest integer, ties to the even one (den > 0).
\* The program rounds binary floats: off a tie it rounds as here; on a tie of
\* the exact quotient the float may lie on either side, so the properties
\* below only ask for a nearest value where a tie can be reached.
RoundHalfEven(num, den) ==
    LET q == num \div den
        r == num % den
    IN  IF 2 * r < den THEN q
        ELSE IF 2 * r > den THEN q + 1
        ELSE IF q % 2 = 0 THEN q ELSE q + 1

\* pd.DataFrame(records) of an empty list has no columns: groupby(col) raises
HasColumns(df) == df # <<>>

NotCalled == [status |-> "not_called", rows |-> <<>>]
KeyError  == [status |-> "KeyError",   rows |-> <<>>]
TypeError == [status |-> "TypeError",  rows |-> <<>>]
Table(rows) == [status |-> "ok", rows |-> rows]

\* ------------------------------------------------------------ aggregation
\* df.groupby(key)['quantity'].sum() for one key; NaN after the outer merge
\* is filled with 0
total(df, key, k) ==
    IF k \in GroupKeys(df, key) THEN SumCol(Group(df, key, k), "quantity") ELSE 0

\* mutant: every month of the calendar in the dict, 0 where nothing was sold
monthly_dict_zero_filled(df, key) ==
    [k \in GroupKeys(df, key) |->
        [m \in Month |->
            SumCol(Group(Group(df, key, k), "month", m), "quantity")]]

\* df.groupby([key, 'month'])['quantity'].sum() folded into one dict per key
monthly_dict(df, key) ==
    [k \in GroupKeys(df, key) |->
        [m \in GroupKeys(Group(df, key, k), "month") |->
            SumCol(Group(Group(df, key, k), "month", m), "quantity")]]

\* column.map(monthly_dict).apply(lambda x: x if isinstance(x, dict) else {})
monthly(df, key, k) ==
    IF k \in DOMAIN monthly_dict(df, key) THEN monthly_dict(df, key)[k] ELSE <<>>

\* 'sku': lambda x: sorted(set(x)) per asin; [] where the merge left NaN
skus(df, k) ==
    IF k \in GroupKeys(df, "asin")
    THEN sorted({r.sku : r \in Range(Group(df, "asin", k))})
    ELSE <<>>

\* mutant: the two lists concatenated, neither deduplicated nor sorted
all_skus_concatenated(skus_2024, skus_2025) == skus_2024 \o skus_2025


all_skus(skus_2024, skus_2025) == sorted(Range(skus_2024 \o skus_2025))

\* mutant: the operands swapped
difference_swapped(total_2024, total_2025) == total_2024 - total_2025


difference(total_2024, total_2025) == total_2025 - total_2024

\* mutant: a key new in 2025 shown as +100 %
change_pct_new_is_100(diff, total_2024) ==
    IF total_2024 > 0 THEN RoundHalfEven(diff * 1000, total_2024)
    ELSE IF diff > 0 THEN 1000 ELSE 0

\* in tenths of a percent
change_pct(diff, total_2024) ==
    IF total_2024 > 0 THEN RoundHalfEven(diff * 1000, total_2024) ELSE 0

\* mutant: current_inventory aggregated with 'first' instead of 'sum'
inventory_by_asin_first(inventory_df) ==
    [k \in GroupKeys(inventory_df, "asin") |->
        LET g == Group(inventory_df, "asin", k)
        IN  [current_inventory |-> g[1].current_inventory,
             current_price     |-> RoundHalfEven(SumCol(g, "current_price"), Len(g))]]

\* -------------------------------------------------- create_comparison_table
inventory_by_asin(inventory_df) ==
    [k \in GroupKeys(inventory_df, "asin") |->
        LET g == Group(inventory_df, "asin", k)
        IN  [current_inventory |-> SumCol(g, "current_inventory"),
             current_price     |-> RoundHalfEven(SumCol(g, "current_price"), Len(g))]]

comparison_row(df_2024, df_2025, k) ==
    LET total_2024 == total(df_2024, "asin", k)
        total_2025 == total(df_2025, "asin", k)
        diff       == difference(total_2024, total_2025)
    IN  [ASIN         |-> k,
         SKUs         |-> join(all_skus(skus(df_2024, k), skus(df_2025, k))),
         Total_2024   |-> total_2024,
         Total_2025   |-> total_2025,
         Difference   |-> diff,
         Change_pct   |-> change_pct(diff, total_2024),
         monthly_2024 |-> monthly(df_2024, "asin", k),
         monthly_2025 |-> monthly(df_2025, "asin", k)]

\* result.merge(inventory_by_asin, how='left') and the two fillna(0)
with_inventory_by_asin(row, inventory_df) ==
    LET inv == inventory_by_asin(inventory_df)
        hit == row.ASIN \in DOMAIN inv
    IN  [f \in DOMAIN row \cup {"current_inventory", "current_price"} |->
            IF f = "current_inventory"
            THEN (IF hit THEN inv[row.ASIN].current_inventory ELSE 0)
            ELSE IF f = "current_price"
            THEN (IF hit THEN RoundHalfEven(inv[row.ASIN].current_price, 1) ELSE 0)
            ELSE row[f]]

\* sorted(set(x)) of a group's skus, and ', '.join(x) after it, raise
\* TypeError when a sku of a grouped row is missing (a float among strings)
SkusRaise(df) == \E i \in DOMAIN df : df[i].asin # NaN /\ df[i].sku = NaN

create_comparison_table(df_2024, df_2025, inventory_df) ==
    IF ~HasColumns(df_2024) \/ ~HasColumns(df_2025) THEN KeyError
    ELSE IF SkusRaise(df_2024) \/ SkusRaise(df_2025) THEN TypeError
    ELSE LET keys   == sorted(GroupKeys(df_2024, "asin") \cup GroupKeys(df_2025, "asin"))
             result == [i \in DOMAIN keys |-> comparison_row(df_2024, df_2025, keys[i])]
         IN  IF inventory_df # <<>>
             THEN Table([i \in DOMAIN result |->
                            with_inventory_by_asin(result[i], inventory_df)])
             ELSE Table(result)

\* mutant: 'last' instead of 'first'
last_asin(df, k) ==
    LET present == SelectSeq(Group(df, "sku", k), LAMBDA r : r.asin # NaN)
    IN  IF present = <<>> THEN NaN ELSE present[Len(present)].asin

\* ---------------------------------------------------- create_sku_level_data
\* groupby('sku')['asin'].first(): the first asin of the group that is not
\* missing, NaN when all are
first_asin(df, k) ==
    LET present == SelectSeq(Group(df, "sku", k), LAMBDA r : r.asin # NaN)
    IN  IF present = <<>> THEN NaN ELSE present[1].asin

asin_map_2025(df_2025) ==
    [k \in GroupKeys(df_2025, "sku") |-> first_asin(df_2025, k)]

\* the asin column: 2024's first asin, NaN filled from asin_map_2025 when
\* df_2025 is not empty, what is still NaN filled with 'N/A'
sku_asin(df_2024, df_2025, k) ==
    LET merged == IF k \in GroupKeys(df_2024, "sku")
                  THEN first_asin(df_2024, k) ELSE NaN
        filled == IF merged = NaN /\ df_2025 # <<>>
                     /\ k \in DOMAIN asin_map_2025(df_2025)
                  THEN asin_map_2025(df_2025)[k] ELSE merged
    IN  IF filled = NaN THEN NA ELSE filled

sku_row(df_2024, df_2025, k) ==
    LET total_2024 == total(df_2024, "sku", k)
        total_2025 == total(df_2025, "sku", k)
        diff       == difference(total_2024, total_2025)
    IN  [sku          |-> k,
         total_2024   |-> total_2024,
         asin         |-> sku_asin(df_2024, df_2025, k),
         total_2025   |-> total_2025,
         difference   |-> diff,
         change_pct   |-> change_pct(diff, total_2024),
         monthly_2024 |-> monthly(df_2024, "sku", k),
         monthly_2025 |-> monthly(df_2025, "sku", k)]

with_inventory(row, current_inventory, current_price) ==
    [f \in DOMAIN row \cup {"current_inventory", "current_price"} |->
        IF f = "current_inventory" THEN current_inventory
        ELSE IF f = "current_price" THEN RoundHalfEven(current_price, 1)
        ELSE row[f]]

\* the rows that sku_data.merge(inventory_df[...], on='sku', how='left') makes
\* of one row: one per inventory record of that sku, in inventory order, or
\* one with NaN (filled with 0) when there is none
merge_left_on_sku(row, inventory_df) ==
    LET hits == Group(inventory_df, "sku", row.sku)
    IN  IF hits = <<>> THEN <<with_inventory(row, 0, 0)>>
        ELSE [j \in DOMAIN hits |->
                 with_inventory(row, hits[j].current_inventory, hits[j].current_price)]

RECURSIVE concat(_)
concat(ss) == IF ss = <<>> THEN <<>> ELSE Head(ss) \o concat(Tail(ss))

create_sku_level_data(df_2024, df_2025, inventory_df) ==
    IF ~HasColumns(df_2024) \/ ~HasColumns(df_2025) THEN KeyError
    ELSE LET keys     == sorted(GroupKeys(df_2024, "sku") \cup GroupKeys(df_2025, "sku"))
             sku_data == [i \in DOMAIN keys |-> sku_row(df_2024, df_2025, keys[i])]
         IN  IF inventory_df # <<>>
             THEN Table(concat([i \in DOMAIN sku_data |->
                                   merge_left_on_sku(sku_data[i], inventory_df)]))
             ELSE Table(sku_data)

\* ------------------------------------------------------------------ actions
\* The parts of the program a specification does not run are at rest.
Years   == {"2024", "2025"}
Targets == Years \cup {"inventory"}

NotBuilt == [status |-> "not_built"]

NoCutoffs ==
    /\ today = [year |-> 2024, month |-> 1, day |-> 1]
    /\ cutoff_2025 = NotBuilt
    /\ cutoff_2024 = NotBuilt

NoDirectory == [exists |-> FALSE, files |-> <<>>]
NoRawFile   == [exists |-> FALSE, readable |-> FALSE, rows |-> <<>>]

NoPipeline ==
    /\ raw_sales = [y \in Years |-> NoDirectory]
    /\ raw_inventory = NoRawFile
    /\ cleaned_data = {}
    /\ returned = [t \in Targets |-> "not_called"]
    /\ loaded = [t \in Targets |-> NotCalled]

NoTables ==
    /\ year_2024_data = <<>> /\ year_2025_data = <<>> /\ inventory_data = <<>>
    /\ comparison_df = NotCalled
    /\ sku_level_df = NotCalled

\* The inputs of one run of the dashboard: the two years' records and the
\* inventory records, as df.to_dict('records') hands them over.
InitSales ==
    /\ year_2024_data \in SeqsUpTo(SalesRecord, MaxLen)
    /\ year_2025_data \in SeqsUpTo(SalesRecord, MaxLen)
    /\ Len(year_2024_data) + Len(year_2025_data) <= MaxRecords
    /\ inventory_data = <<>>

\* Runs with inventory: at most one order line a year, of one unit in month 1
InventorySalesRecord == {r \in SalesRecord : r.month = 1 /\ r.quantity = 1}

InitInventory ==
    /\ year_2024_data \in SeqsUpTo(InventorySalesRecord, 1)
    /\ year_2025_data \in SeqsUpTo(InventorySalesRecord, 1)
    /\ inventory_data \in SeqsUpTo(InventoryRecord, MaxInventory)

Init ==
    /\ InitSales \/ InitInventory
    /\ comparison_df = NotCalled
    /\ sku_level_df = NotCalled
    /\ NoCutoffs
    /\ NoPipeline

\* A run applies one of the two functions to its inputs (both are pure: the
\* result of one does not depend on the other having run).
CallCreateComparisonTable ==
    /\ comparison_df = NotCalled /\ sku_level_df = NotCalled
    /\ comparison_df' =
          create_comparison_table(year_2024_data, year_2025_data, inventory_data)
    /\ UNCHANGED <<year_2024_data, year_2025_data, inventory_data, sku_level_df>>
    /\ UNCHANGED <<cutoff_vars, pipeline_vars>>

CallCreateSkuLevelData ==
    /\ comparison_df = NotCalled /\ sku_level_df = NotCalled
    /\ sku_level_df' =
          create_sku_level_data(year_2024_data, year_2025_data, inventory_data)
    /\ UNCHANGED <<year_2024_data, year_2025_data, inventory_data, comparison_df>>
    /\ UNCHANGED <<cutoff_vars, pipeline_vars>>

Next ==
    \/ CallCreateComparisonTable
    \/ CallCreateSkuLevelData

Spec == Init /\ [][Next]_vars

\* Records that lack a grouping key reach the two functions: each year has a
\* well-formed record, 2024 has one more record whose sku or asin is missing.
MalformedRecord ==
    {r \in [sku : Sku \cup {NaN}, asin : Asin \cup {NaN},
            month : Month, quantity : Quantity] :
        r.sku = NaN \/ r.asin = NaN}

InitMalformed ==
    /\ \E good \in SalesRecord, bad \in MalformedRecord :
          year_2024_data \in {<<good, bad>>, <<bad, good>>}
    /\ year_2025_data \in SeqsUpTo(SalesRecord, 1) \ {<<>>}
    /\ inventory_data = <<>>
    /\ comparison_df = NotCalled
    /\ sku_level_df = NotCalled
    /\ NoCutoffs
    /\ NoPipeline

SpecMalformed == InitMalformed /\ [][Next]_vars

\* ============================================================= properties
\* What the properties read off the inputs and the returned tables, written
\* without the operators of the model above.
Abs(x) == IF x < 0 THEN -x ELSE x

RECURSIVE SumOver(_, _)
SumOver(I, f) ==
    IF I = {} THEN 0
    ELSE LET i == CHOOSE j \in I : TRUE IN f[i] + SumOver(I \ {i}, f)

Data(year) == IF year = 2024 THEN year_2024_data ELSE year_2025_data

\* the quantity the records of one year sell of key k (of column by)
Sold(year, by, k) ==
    SumOver({i \in DOMAIN Data(year) : Data(year)[i][by] = k},
            [i \in DOMAIN Data(year) |-> Data(year)[i].quantity])

SoldInMonth(year, by, k, m) ==
    SumOver({i \in DOMAIN Data(year) :
                Data(year)[i][by] = k /\ Data(year)[i].month = m},
            [i \in DOMAIN Data(year) |-> Data(year)[i].quantity])

KeysOf(year, by) == {Data(year)[i][by] : i \in DOMAIN Data(year)}

MonthsOf(year, by, k) ==
    {Data(year)[i].month : i \in {j \in DOMAIN Data(year) : Data(year)[j][by] = k}}

\* the rows of the two returned tables under common field names
AsinRows ==
    {[by |-> "asin", key |-> r.ASIN,
      total_2024 |-> r.Total_2024, total_2025 |-> r.Total_2025,
      difference |-> r.Difference, change_pct |-> r.Change_pct,
      monthly_2024 |-> r.monthly_2024, monthly_2025 |-> r.monthly_2025] :
        r \in Range(comparison_df.rows)}

SkuRows ==
    {[by |-> "sku", key |-> r.sku,
      total_2024 |-> r.total_2024, total_2025 |-> r.total_2025,
      difference |-> r.difference, change_pct |-> r.change_pct,
      monthly_2024 |-> r.monthly_2024, monthly_2025 |-> r.monthly_2025] :
        r \in Range(sku_level_df.rows)}

AllRows == AsinRows \cup SkuRows

BothYearsGiven == year_2024_data # <<>> /\ year_2025_data # <<>>

RowsOfAsin(a) == {i \in DOMAIN comparison_df.rows : comparison_df.rows[i].ASIN = a}
RowsOfSku(k)  == {i \in DOMAIN sku_level_df.rows : sku_level_df.rows[i].sku = k}

\* C1: once create_comparison_table has been called, its table has exactly one
\* row for every asin of the 2024 or 2025 records and no row for another asin.
C1_JoinCompleteness ==
    comparison_df.status # "not_called" =>
        /\ \A a \in KeysOf(2024, "asin") \cup KeysOf(2025, "asin") :
              Cardinality(RowsOfAsin(a)) = 1
        /\ \A i \in DOMAIN comparison_df.rows :
              comparison_df.rows[i].ASIN \in
                  KeysOf(2024, "asin") \cup KeysOf(2025, "asin")

\* C2: in the table create_sku_level_data returns every sku of the records
\* appears exactly once, whatever the inventory records are.
C2_EachSkuOnce ==
    sku_level_df.status = "ok" =>
        /\ \A k \in KeysOf(2024, "sku") \cup KeysOf(2025, "sku") :
              Cardinality(RowsOfSku(k)) = 1
        /\ \A i \in DOMAIN sku_level_df.rows :
              sku_level_df.rows[i].sku \in KeysOf(2024, "sku") \cup KeysOf(2025, "sku")

\* C3: with the records of exactly one year empty, a call of either function
\* returns a table with one row per key of the other year, and the empty
\* year's total is 0 on every row.
C3_EmptyYearIsNoError ==
    (year_2024_data = <<>>) # (year_2025_data = <<>>) =>
        /\ comparison_df.status # "not_called" =>
              /\ comparison_df.status = "ok"
              /\ \A a \in KeysOf(2024, "asin") \cup KeysOf(2025, "asin") :
                    Cardinality(RowsOfAsin(a)) = 1
        /\ sku_level_df.status # "not_called" =>
              /\ sku_level_df.status = "ok"
              /\ \A k \in KeysOf(2024, "sku") \cup KeysOf(2025, "sku") :
                    Cardinality(RowsOfSku(k)) = 1
        /\ \A r \in AllRows :
              /\ year_2024_data = <<>> => r.total_2024 = 0
              /\ year_2025_data = <<>> => r.total_2025 = 0

\* C4: on every row of both tables change_pct is 0 when the 2024 total is 0,
\* and otherwise it is difference / total_2024 * 100 rounded to one decimal
\* (here: the integer number of tenths nearest to 1000 * difference /
\* total_2024, the even one on a tie); and a call with records for both years
\* returns its table, no division raising.
C4_ZeroDivisionPolicy ==
    /\ \A r \in AllRows :
          /\ r.total_2024 = 0 => r.change_pct = 0
          /\ r.total_2024 # 0 =>
                /\ 2 * Abs(r.change_pct * r.total_2024 - 1000 * r.difference)
                      <= r.total_2024
                /\ 2 * Abs(r.change_pct * r.total_2024 - 1000 * r.difference)
                      = r.total_2024 => r.change_pct % 2 = 0
    /\ BothYearsGiven =>
          /\ comparison_df.status \in {"not_called", "ok"}
          /\ sku_level_df.status \in {"not_called", "ok"}

\* a returned row new in 2025 (2024 total 0, 2025 total positive) whose
\* change_pct is 0
C4_Witness ==
    \E r \in AllRows : r.total_2024 = 0 /\ r.total_2025 > 0 /\ r.change_pct = 0

\* C5: on every row of both tables difference = total_2025 - total_2024, and a
\* key that one year's records do not have has total 0 and an empty monthly
\* map for that year.
C5_DifferenceAndGaps ==
    \A r \in AllRows :
        /\ r.difference = r.total_2025 - r.total_2024
        /\ r.key \notin KeysOf(2024, r.by) =>
              r.total_2024 = 0 /\ DOMAIN r.monthly_2024 = {}
        /\ r.key \notin KeysOf(2025, r.by) =>
              r.total_2025 = 0 /\ DOMAIN r.monthly_2025 = {}

\* a returned row of a key sold in 2024 only: negative difference, 2025 total
\* 0 and no 2025 month
C5_Witness ==
    \E r \in AllRows :
        /\ r.key \in KeysOf(2024, r.by) /\ r.key \notin KeysOf(2025, r.by)
        /\ r.difference < 0 /\ r.total_2025 = 0 /\ DOMAIN r.monthly_2025 = {}

\* C6: for either table, the 2024 totals of its rows add up to the quantity of
\* all 2024 records, and the 2025 totals to that of all 2025 records.
C6_TotalConservation ==
    /\ comparison_df.status = "ok" =>
          /\ SumOver(DOMAIN comparison_df.rows,
                     [i \in DOMAIN comparison_df.rows |-> comparison_df.rows[i].Total_2024])
                = SumOver(DOMAIN year_2024_data,
                          [i \in DOMAIN year_2024_data |-> year_2024_data[i].quantity])
          /\ SumOver(DOMAIN comparison_df.rows,
                     [i \in DOMAIN comparison_df.rows |-> comparison_df.rows[i].Total_2025])
                = SumOver(DOMAIN year_2025_data,
                          [i \in DOMAIN year_2025_data |-> year_2025_data[i].quantity])
    /\ sku_level_df.status = "ok" =>
          /\ SumOver(DOMAIN sku_level_df.rows,
                     [i \in DOMAIN sku_level_df.rows |-> sku_level_df.rows[i].total_2024])
                = SumOver(DOMAIN year_2024_data,
                          [i \in DOMAIN year_2024_data |-> year_2024_data[i].quantity])
          /\ SumOver(DOMAIN sku_level_df.rows,
                     [i \in DOMAIN sku_level_df.rows |-> sku_level_df.rows[i].total_2025])
                = SumOver(DOMAIN year_2025_data,
                          [i \in DOMAIN year_2025_data |-> year_2025_data[i].quantity])

\* C7: on every row and for each year, the values of the monthly map add up to
\* the year's total of the key, which is what the records sell of it, and the
\* months of the map are exactly the months in which the key has a record.
C7_MonthlyConservation ==
    \A r \in AllRows :
        /\ DOMAIN r.monthly_2024 = MonthsOf(2024, r.by, r.key)
        /\ DOMAIN r.monthly_2025 = MonthsOf(2025, r.by, r.key)
        /\ \A m \in DOMAIN r.monthly_2024 :
              r.monthly_2024[m] = SoldInMonth(2024, r.by, r.key, m)
        /\ \A m \in DOMAIN r.monthly_2025 :
              r.monthly_2025[m] = SoldInMonth(2025, r.by, r.key, m)
        /\ SumOver(DOMAIN r.monthly_2024, r.monthly_2024) = r.total_2024
        /\ SumOver(DOMAIN r.monthly_2025, r.monthly_2025) = r.total_2025
        /\ r.total_2024 = Sold(2024, r.by, r.key)
        /\ r.total_2025 = Sold(2025, r.by, r.key)

\* a returned table with a row whose 2024 map has two months and a row whose
\* 2025 map has month 2 but not month 1
C7_Witness ==
    \E r1, r2 \in AllRows :
        /\ Cardinality(DOMAIN r1.monthly_2024) = 2 /\ r1.total_2024 > 0
        /\ DOMAIN r2.monthly_2025 = {2}

\* C8: on every row of the asin table the SKUs column lists, in increasing
\* order, without repetition and separated by ', ', exactly the skus that the
\* 2024 or the 2025 records have with that asin.
SkusWithAsin(a) ==
    {year_2024_data[i].sku : i \in {j \in DOMAIN year_2024_data : year_2024_data[j].asin = a}}
    \cup
    {year_2025_data[i].sku : i \in {j \in DOMAIN year_2025_data : year_2025_data[j].asin = a}}

C8_SkusAreSortedUnion ==
    \A r \in Range(comparison_df.rows) :
        /\ Len(r.SKUs) = 2 * Cardinality(SkusWithAsin(r.ASIN)) - 1
        /\ \A i \in DOMAIN r.SKUs :
              IF i % 2 = 1 THEN r.SKUs[i] \in SkusWithAsin(r.ASIN)
                           ELSE r.SKUs[i] = Sep
        /\ \A i, j \in DOMAIN r.SKUs :
              (i % 2 = 1 /\ j % 2 = 1 /\ i < j) => r.SKUs[i] < r.SKUs[j]

\* a returned row of an asin whose larger sku is in the 2024 records only and
\* whose smaller sku is in the 2025 records only
C8_Witness ==
    \E r \in Range(comparison_df.rows) :
        /\ Len(r.SKUs) = 3
        /\ \A i \in DOMAIN year_2024_data :
              year_2024_data[i].asin = r.ASIN => year_2024_data[i].sku = r.SKUs[3]
        /\ \A i \in DOMAIN year_2025_data :
              year_2025_data[i].asin = r.ASIN => year_2025_data[i].sku = r.SKUs[1]

\* the inventory records of one asin
InventoryOfAsin(a) == {i \in DOMAIN inventory_data : inventory_data[i].asin = a}

InventorySupplied == inventory_data # <<>>

\* C9 as stated: with inventory supplied, every row of the asin table carries
\* the sum of current_inventory and the mean of current_price of the inventory
\* records of its asin, and 0 and 0.0 when there is none.
C9_InventoryExactMean ==
    InventorySupplied =>
        \A r \in Range(comparison_df.rows) :
            LET I == InventoryOfAsin(r.ASIN)
            IN  /\ r.current_inventory =
                      SumOver(I, [i \in DOMAIN inventory_data |->
                                     inventory_data[i].current_inventory])
                /\ r.current_price * Cardinality(I) =
                      SumOver(I, [i \in DOMAIN inventory_data |->
                                     inventory_data[i].current_price])

\* C9 (amended): as above, with current_price the mean rounded to two decimals:
\* the whole number of cents nearest to the mean.  Columns are there exactly
\* when inventory is supplied.
C9_InventoryRoundedMean ==
    \A r \in Range(comparison_df.rows) :
        /\ InventorySupplied <=> "current_inventory" \in DOMAIN r
        /\ InventorySupplied <=> "current_price" \in DOMAIN r
        /\ InventorySupplied =>
              LET I == InventoryOfAsin(r.ASIN)
                  prices == SumOver(I, [i \in DOMAIN inventory_data |->
                                           inventory_data[i].current_price])
              IN  /\ r.current_inventory =
                        SumOver(I, [i \in DOMAIN inventory_data |->
                                       inventory_data[i].current_inventory])
                  /\ I = {} => r.current_price = 0
                  /\ I # {} =>
                        2 * Abs(r.current_price * Cardinality(I) - prices)
                            <= Cardinality(I)

\* a returned table with a row whose asin has two inventory records, of
\* different stock, and a row whose asin has none
C9_Witness ==
    /\ InventorySupplied
    /\ \E r1, r2 \in Range(comparison_df.rows) :
          /\ \E i, j \in InventoryOfAsin(r1.ASIN) :
                inventory_data[i].current_inventory
                    # inventory_data[j].current_inventory
          /\ r1.current_inventory = 1
          /\ InventoryOfAsin(r2.ASIN) = {}
          /\ r2.current_inventory = 0 /\ r2.current_price = 0

\* the first record of sku k in a year's records
FirstOfSku(data, k) ==
    data[CHOOSE i \in DOMAIN data :
            data[i].sku = k /\ \A j \in 1..(i - 1) : data[j].sku # k]

\* C10: every row of the sku table has an asin: that of the first 2024 record
\* of the sku if there is one, else that of its first 2025 record, else 'N/A'.
C10_SkuRowAsin ==
    \A r \in Range(sku_level_df.rows) :
        /\ r.asin \in Asin \cup {NA}
        /\ r.asin =
              IF r.sku \in KeysOf(2024, "sku") THEN FirstOfSku(year_2024_data, r.sku).asin
              ELSE IF r.sku \in KeysOf(2025, "sku")
                   THEN FirstOfSku(year_2025_data, r.sku).asin
                   ELSE NA

\* a returned row of a sku that has no 2024 record and two 2025 records of
\* different asins
C10_Witness ==
    \E r \in Range(sku_level_df.rows) :
        /\ r.sku \notin KeysOf(2024, "sku")
        /\ \E i, j \in DOMAIN year_2025_data :
              /\ i < j
              /\ year_2025_data[i].sku = r.sku /\ year_2025_data[j].sku = r.sku
              /\ year_2025_data[i].asin # year_2025_data[j].asin
              /\ r.asin = year_2025_data[i].asin

\* ------------------------------------------------------------ cutoff dates
IsLeap(y) == y % 4 = 0 /\ (y % 100 # 0 \/ y % 400 = 0)

DaysInMonth(y, m) ==
    IF m = 2 THEN (IF IsLeap(y) THEN 29 ELSE 28)
    ELSE IF m \in {4, 6, 9, 11} THEN 30 ELSE 31

\* datetime(year, month, day, hour, minute, second): ValueError when the day
\* is not a day of that month
datetime(year, month, day, hour, minute, second) ==
    IF month \in 1..12 /\ day \in 1..DaysInMonth(year, month)
    THEN [status |-> "ok", year |-> year, month |-> month, day |-> day,
          hour |-> hour, minute |-> minute, second |-> second]
    ELSE [status |-> "ValueError"]

\* mutant: the cutoff of year A built in 2025, the other year of the comparison
build_cutoff_2024_in_2025(t) == datetime(2025, t.month, t.day, 23, 59, 59)

build_cutoff_2024(t) == datetime(2024, t.month, t.day, 23, 59, 59)

build_cutoff_2025(t) == datetime(t.year, t.month, t.day, 23, 59, 59)

\* datetime.now(): a date of the calendar
Today ==
    {[year |-> y, month |-> m, day |-> d] :
        y \in 2024..(2024 + YearsAhead), m \in 1..12, d \in 1..31}

InitCutoff ==
    /\ today \in {t \in Today : t.day <= DaysInMonth(t.year, t.month)}
    /\ cutoff_2025 = NotBuilt
    /\ cutoff_2024 = NotBuilt
    /\ NoTables
    /\ NoPipeline

\* lines 224-227 of the script; a raise at line 226 ends the script
BuildCutoffs ==
    /\ cutoff_2025 = NotBuilt
    /\ cutoff_2025' = build_cutoff_2025(today)
    /\ cutoff_2024' = IF build_cutoff_2025(today).status = "ok"
                      THEN build_cutoff_2024(today) ELSE NotBuilt
    /\ UNCHANGED <<today, table_vars, pipeline_vars>>

NextCutoff == BuildCutoffs

SpecCutoff == InitCutoff /\ [][NextCutoff]_vars

\* C13: once the script has built its cutoffs, both were built without a
\* raise, whatever day today is: the cutoff of 2024 is today's month and day
\* in 2024 at 23:59:59, the other is today at 23:59:59; and no cutoff is a
\* Feb 29 of a year that is not a leap year (today's Feb 29 would be brought
\* to Feb 28 there).
C13_CutoffsNeverRaise ==
    cutoff_2025 # NotBuilt =>
        /\ cutoff_2025 = [status |-> "ok", year |-> today.year, month |-> today.month,
                          day |-> today.day, hour |-> 23, minute |-> 59, second |-> 59]
        /\ cutoff_2024 = [status |-> "ok", year |-> 2024, month |-> today.month,
                          day |-> today.day, hour |-> 23, minute |-> 59, second |-> 59]
        /\ \A c \in {cutoff_2024, cutoff_2025} :
              (today.month = 2 /\ today.day = 29 /\ ~IsLeap(c.year)) =>
                  c.month = 2 /\ c.day = 28

\* the cutoffs built on a Feb 29 after 2024
C13_Witness ==
    /\ today.month = 2 /\ today.day = 29 /\ today.year > 2024
    /\ cutoff_2025 # NotBuilt
    /\ cutoff_2024.status = "ok" /\ cutoff_2024.day = 29

\* -------------------------------------------------------------- the loaders
\* cleaned_data is the directory: a set of files, one per path
sales_csv(year) == "cleaned_data/" \o year \o "_sales.csv"

inventory_csv == "cleaned_data/inventory.csv"

exists(path) == \E f \in cleaned_data : f.path = path

read(path) == CHOOSE f \in cleaned_data : f.path = path

None      == [status |-> "None"]
NaT       == [status |-> "NaT"]
NotFound  == [status |-> "not_found", rows |-> <<>>]
LoadError == [status |-> "error",     rows |-> <<>>]

\* the order of two datetimes: a count of seconds from the year 2000 that
\* grows with the date
Timestamp(d) ==
    (((((d.year - 2000) * 12 + d.month) * 31 + d.day) * 24 + d.hour) * 60 + d.minute) * 60
        + d.second

\* pd.to_datetime(df['purchase_date'], errors='coerce'): the column carries
\* a timezone when the texts do and one of them parses; NaT is a text
\* that does not parse
parsed_with_timezone(df) ==
    df.tz = "aware" /\ \E i \in DOMAIN df.rows : df.rows[i].purchase_date # NaT

\* df[df['purchase_datetime'] <= cutoff_date]; NaT compares False
keep_to_cutoff(rows, cutoff_date) ==
    SelectSeq(rows, LAMBDA r : /\ r.purchase_date # NaT
                               /\ Timestamp(r.purchase_date) <= Timestamp(cutoff_date))

\* load_sales_data(year, cutoff_date); the cutoff is localized to UTC, and its
\* comparison with a column without timezone raises TypeError, caught at
\* line 32
load_sales_data(year, cutoff_date) ==
    IF ~exists(sales_csv(year)) THEN NotFound
    ELSE LET df == read(sales_csv(year))
         IN  IF cutoff_date = None THEN Table(df.rows)
             ELSE IF ~parsed_with_timezone(df) THEN LoadError
             ELSE Table(keep_to_cutoff(df.rows, cutoff_date))

YearOf(year) == IF year = "2024" THEN 2024 ELSE 2025

\* purchase dates around the end of January 5 of the file's year; NaT is a
\* text that is no date
PurchaseDate(year) ==
    {datetime(YearOf(year), 1, 5, 0, 0, 0), datetime(YearOf(year), 1, 5, 23, 59, 59),
     datetime(YearOf(year), 1, 6, 0, 0, 0), NaT}

StoredRecord(year) ==
    {[sku |-> l[1], asin |-> l[2], purchase_date |-> d, quantity |-> q, month |-> 1] :
        l \in Listing, d \in PurchaseDate(year), q \in 1..2}

StoredFile(year) ==
    {[path |-> sales_csv(year), tz |-> z, rows |-> s] :
        z \in {"aware", "naive"}, s \in SeqsUpTo(StoredRecord(year), MaxStored)}

\* the cutoffs the script passes: those of a day of early January 2025, or none
CutoffOf(year) ==
    {IF year = "2024" THEN build_cutoff_2024(t) ELSE build_cutoff_2025(t) :
        t \in {[year |-> 2025, month |-> 1, day |-> d] : d \in 4..6}} \cup {None}

InitLoad ==
    /\ cleaned_data \in {{}} \cup {{f} : f \in StoredFile("2024") \cup StoredFile("2025")}
    /\ raw_sales = [y \in Years |-> NoDirectory]
    /\ raw_inventory = NoRawFile
    /\ returned = [t \in Targets |-> "not_called"]
    /\ loaded = [t \in Targets |-> NotCalled]
    /\ NoTables
    /\ NoCutoffs

\* df = load_sales_data(year, cutoff_date); loaded keeps the argument beside
\* the returned frame
LoadSales(year, cutoff_date) ==
    /\ loaded[year] = NotCalled
    /\ loaded' = [loaded EXCEPT ![year] =
                     [status      |-> load_sales_data(year, cutoff_date).status,
                      rows        |-> load_sales_data(year, cutoff_date).rows,
                      cutoff_date |-> cutoff_date]]
    /\ UNCHANGED <<table_vars, cutoff_vars, raw_sales, raw_inventory, cleaned_data, returned>>

NextLoad == \E year \in Years : \E cutoff_date \in CutoffOf(year) : LoadSales(year, cutoff_date)

SpecLoad == InitLoad /\ [][NextLoad]_vars

\* the stored records of a year, none when its file is missing
Stored(year) == IF exists(sales_csv(year)) THEN read(sales_csv(year)).rows ELSE <<>>

\* C12: load_sales_data(year, cutoff) with a cutoff supplied returns exactly
\* the stored records of the year whose purchase_date is at or before the
\* cutoff, in their order and with their fields unchanged.
C12_CutoffFilterExact ==
    \A year \in Years :
        (loaded[year] # NotCalled /\ loaded[year].cutoff_date # None) =>
            loaded[year].rows =
                SelectSeq(Stored(year),
                          LAMBDA r : /\ r.purchase_date # NaT
                                     /\ Timestamp(r.purchase_date)
                                            <= Timestamp(loaded[year].cutoff_date))

\* ------------------------------------------------- preprocess_sales_data
\* the file-name prefixes before the first '-', in the order of sorted(glob)
Prefix == <<"1", "13", "x">>

file_name(prefix, year) == prefix \o "-" \o year \o ".txt"

\* os.path.basename(file_path).split('-')[0]
split_prefix(name, year) ==
    CHOOSE p \in Range(Prefix) : name = file_name(p, year)

ValueError == [status |-> "ValueError"]

\* int(text)
int(text) ==
    CASE text = "1"  -> [status |-> "ok", value |-> 1]
      [] text = "13" -> [status |-> "ok", value |-> 13]
      [] OTHER       -> ValueError

\* astype('int8')
int8(n) == ((n + 128) % 256) - 128

\* one row of a raw report and the rows that differ from it
GoodRow ==
    [sku |-> 1, asin |-> 1, purchase_date |-> datetime(2024, 1, 5, 0, 0, 0),
     quantity |-> 2, order_status |-> "Shipped", item_status |-> "Shipped"]

RawRow ==
    {GoodRow,
     [GoodRow EXCEPT !.sku = 2, !.quantity = 1],
     [GoodRow EXCEPT !.quantity = NaN],
     [GoodRow EXCEPT !.quantity = NotANumber],
     [GoodRow EXCEPT !.order_status = "Cancelled"],
     [GoodRow EXCEPT !.item_status = "Cancelled"],
     [GoodRow EXCEPT !.order_status = "Cancelled", !.quantity = NotANumber],
     [GoodRow EXCEPT !.sku = NaN],
     [GoodRow EXCEPT !.sku = NaN, !.quantity = NotANumber],
     [GoodRow EXCEPT !.asin = NaN],
     [GoodRow EXCEPT !.purchase_date = NaT]}

\* mutant: a row is dropped only when both statuses are "Cancelled"
not_cancelled_either(r) == r.order_status # "Cancelled" \/ r.item_status # "Cancelled"

\* lines 54-57
not_cancelled(r) == r.order_status # "Cancelled" /\ r.item_status # "Cancelled"

\* quantity.fillna(1)
fillna_1(quantity) == IF quantity = NaN THEN 1 ELSE quantity

\* the record kept of a row, lines 62-75
cleaned_record(r, month) ==
    [sku |-> r.sku, asin |-> r.asin, purchase_date |-> r.purchase_date,
     quantity |-> fillna_1(r.quantity), month |-> month]

Skipped == [status |-> "skipped", rows |-> <<>>]

\* the body of the loop for one file, lines 36-86: a raise (the prefix is no
\* integer, read_csv fails, astype(int) meets a text that is no number)
\* skips the file
process_file(f, year) ==
    IF int(split_prefix(f.name, year)) = ValueError \/ ~f.readable THEN Skipped
    ELSE LET month == int(split_prefix(f.name, year)).value
             df    == SelectSeq(f.rows, not_cancelled)
             kept  == SelectSeq(df, LAMBDA r : /\ r.sku # NaN /\ r.asin # NaN
                                              /\ r.purchase_date # NaT)
         IN  IF \E i \in DOMAIN df : df[i].quantity = NotANumber THEN Skipped
             ELSE Table([i \in DOMAIN kept |-> cleaned_record(kept[i], month)])

sales_parquet(year) == "cleaned_data/" \o year \o "_sales.parquet"

\* preprocess_sales_data(year): the value returned and the file written
preprocess_sales_data(year, dir) ==
    IF ~dir.exists \/ dir.files = <<>> THEN [returned |-> "False", written |-> {}]
    ELSE LET frames  == [i \in DOMAIN dir.files |-> process_file(dir.files[i], year)]
             all_dfs == SelectSeq(frames, LAMBDA d : d.status = "ok")
             combined_df == concat([i \in DOMAIN all_dfs |-> all_dfs[i].rows])
         IN  IF all_dfs # <<>>
             THEN [returned |-> "True",
                   written  |-> {[path |-> sales_parquet(year),
                                  rows |-> [i \in DOMAIN combined_df |->
                                              [combined_df[i] EXCEPT !.month = int8(@)]]]}]
             ELSE [returned |-> "False", written |-> {}]

\* no file or one file of a name, with at most n rows; a file that read_csv
\* cannot read has none
FileChoice(prefix, year, n) ==
    {<<>>}
    \cup {<<[name |-> file_name(prefix, year), readable |-> TRUE, rows |-> s]>> :
            s \in SeqsUpTo(RawRow, n)}
    \cup {<<[name |-> file_name(prefix, year), readable |-> FALSE, rows |-> <<>>]>>}

Rows(choice) == IF choice = <<>> THEN 0 ELSE Len(choice[1].rows)

\* the raw directories: that of year is missing or holds at most files files,
\* named from Prefix and listed in sorted order, with at most n rows in all;
\* the other year has none
RawSalesOf(year, files, n) ==
    \/ raw_sales = [y \in Years |-> NoDirectory]
    \/ \E c1 \in FileChoice(Prefix[1], year, n) :
       \E c2 \in FileChoice(Prefix[2], year, n - Rows(c1)) :
       \E c3 \in FileChoice(Prefix[3], year, n - Rows(c1) - Rows(c2)) :
          /\ Len(c1 \o c2 \o c3) <= files
          /\ raw_sales = [y \in Years |->
                             IF y = year THEN [exists |-> TRUE, files |-> c1 \o c2 \o c3]
                             ELSE NoDirectory]

InitPreprocess ==
    /\ \E year \in Years : RawSalesOf(year, MaxFiles, MaxRawRows)
    /\ raw_inventory = NoRawFile
    /\ cleaned_data = {}
    /\ returned = [t \in Targets |-> "not_called"]
    /\ loaded = [t \in Targets |-> NotCalled]
    /\ NoTables
    /\ NoCutoffs

\* success = preprocess_sales_data(year); to_parquet replaces a file of the
\* same path
PreprocessSales(year) ==
    /\ returned[year] = "not_called"
    /\ LET result == preprocess_sales_data(year, raw_sales[year])
       IN  /\ returned' = [returned EXCEPT ![year] = result.returned]
           /\ cleaned_data' =
                 {f \in cleaned_data : \A w \in result.written : f.path # w.path}
                     \cup result.written
    /\ UNCHANGED <<table_vars, cutoff_vars, raw_sales, raw_inventory, loaded>>

NextPreprocess == \E year \in Years : PreprocessSales(year)

SpecPreprocess == InitPreprocess /\ [][NextPreprocess]_vars

\* the records written for a year, none when no file was written
Written(year) ==
    IF exists(sales_parquet(year)) THEN read(sales_parquet(year)).rows ELSE <<>>

\* a file that read_csv read: its name has an integer prefix and the read
\* did not fail
WasRead(f, year) ==
    /\ \E p \in {"1", "13"} : f.name = file_name(p, year)
    /\ f.readable

\* a file whose loop body ran to its end: it was read and no row left by the
\* status filter has a quantity that is no number
WasProcessed(f, year) ==
    /\ WasRead(f, year)
    /\ \A i \in DOMAIN f.rows :
          (f.rows[i].order_status # "Cancelled" /\ f.rows[i].item_status # "Cancelled")
              => f.rows[i].quantity # NotANumber

\* the conditions of a valid raw row
Qualifies(r) ==
    /\ r.order_status # "Cancelled" /\ r.item_status # "Cancelled"
    /\ r.sku # NaN /\ r.asin # NaN
    /\ r.purchase_date # NaT

\* what a valid raw row is written as, the month aside
Core(r) ==
    [sku |-> r.sku, asin |-> r.asin, purchase_date |-> r.purchase_date,
     quantity |-> IF r.quantity = NaN THEN 1 ELSE r.quantity]

\* the valid rows of the files F (indices into files) written as c
Sources(files, F, c) ==
    {<<i, j>> \in F \X (1..MaxRawRows) :
        /\ j \in DOMAIN files[i].rows
        /\ Qualifies(files[i].rows[j])
        /\ Core(files[i].rows[j]) = c}

\* the written records equal to c, the month aside
Copies(written, c) ==
    {k \in DOMAIN written :
        [sku |-> written[k].sku, asin |-> written[k].asin,
         purchase_date |-> written[k].purchase_date,
         quantity |-> written[k].quantity] = c}

\* what the rows of the files can be written as
Cores(files) ==
    UNION {{Core(files[i].rows[j]) : j \in DOMAIN files[i].rows} : i \in DOMAIN files}

\* C14 as stated: once preprocess_sales_data(year) has returned, the records
\* it wrote are, one for one, the valid rows (no status "Cancelled", sku and
\* asin present, purchase date parseable) of the files that were read, with
\* quantity 1 where the raw quantity was missing.
C14_ValidRowsOfReadFiles ==
    \A year \in Years :
        returned[year] # "not_called" =>
            LET files   == raw_sales[year].files
                written == Written(year)
                F       == {i \in DOMAIN files : WasRead(files[i], year)}
            IN  /\ \A c \in Cores(files) :
                      Cardinality(Copies(written, c)) = Cardinality(Sources(files, F, c))
                /\ \A k \in DOMAIN written :
                      Sources(files, F, Core(written[k])) # {}

\* C14: once preprocess_sales_data(year) has returned, the records it wrote
\* are, one for one, the valid rows (no status "Cancelled", sku and asin
\* present, purchase date parseable) of the files whose processing did not
\* raise, with quantity 1 where the raw quantity was missing; a file that
\* was read but holds a quantity that is no number in a row that is not
\* cancelled is skipped whole.
C14_ValidRowsOfProcessedFiles ==
    \A year \in Years :
        returned[year] # "not_called" =>
            LET files   == raw_sales[year].files
                written == Written(year)
                F       == {i \in DOMAIN files : WasProcessed(files[i], year)}
            IN  /\ \A c \in Cores(files) :
                      Cardinality(Copies(written, c)) = Cardinality(Sources(files, F, c))
                /\ \A k \in DOMAIN written :
                      Sources(files, F, Core(written[k])) # {}

\* a year written from a row without quantity, a file that was read skipped
\* beside it
C14_Witness ==
    \E year \in Years :
        /\ returned[year] = "True"
        /\ \E k \in DOMAIN Written(year) : Written(year)[k].quantity = 1
        /\ \E i \in DOMAIN raw_sales[year].files :
              \E j \in DOMAIN raw_sales[year].files[i].rows :
                  /\ raw_sales[year].files[i].rows[j].quantity = NaN
                  /\ Qualifies(raw_sales[year].files[i].rows[j])
                  /\ WasProcessed(raw_sales[year].files[i], year)
        /\ \E i \in DOMAIN raw_sales[year].files :
              /\ WasRead(raw_sales[year].files[i], year)
              /\ ~WasProcessed(raw_sales[year].files[i], year)

\* C15: every record preprocess_sales_data writes has its month in 1..12.
C15_MonthInRange ==
    \A year \in Years :
        \A k \in DOMAIN Written(year) : Written(year)[k].month \in 1..12

\* ------------------------------------------------------------ the pipeline
\* a row of Inventory.txt (seller-sku, asin1, price, quantity under their new
\* names) and the rows that differ from it
GoodInventoryRow == [sku |-> 1, asin |-> 1, current_price |-> 1, current_inventory |-> 1]

RawInventoryRow ==
    {GoodInventoryRow,
     [GoodInventoryRow EXCEPT !.sku = NaN],
     [GoodInventoryRow EXCEPT !.asin = NaN],
     [GoodInventoryRow EXCEPT !.current_price = NotANumber],
     [GoodInventoryRow EXCEPT !.current_inventory = NaN]}

\* pd.to_numeric(..., errors='coerce').fillna(0)
to_numeric_fillna_0(x) == IF x \in {NaN, NotANumber} THEN 0 ELSE x

inventory_parquet == "cleaned_data/inventory.parquet"

\* preprocess_inventory_data(): the value returned and the file written
preprocess_inventory_data(file) ==
    IF ~file.exists \/ ~file.readable THEN [returned |-> "False", written |-> {}]
    ELSE LET df == SelectSeq(file.rows, LAMBDA r : r.sku # NaN /\ r.asin # NaN)
         IN  [returned |-> "True",
              written  |-> {[path |-> inventory_parquet,
                             rows |-> [i \in DOMAIN df |->
                                 [sku |-> df[i].sku, asin |-> df[i].asin,
                                  current_price |-> to_numeric_fillna_0(df[i].current_price),
                                  current_inventory |->
                                      to_numeric_fillna_0(df[i].current_inventory)]]]}]

\* load_inventory_data()
load_inventory_data ==
    IF ~exists(inventory_csv) THEN NotFound
    ELSE Table(read(inventory_csv).rows)

RawInventory ==
    {NoRawFile, [exists |-> TRUE, readable |-> FALSE, rows |-> <<>>]}
    \cup {[exists |-> TRUE, readable |-> TRUE, rows |-> s] : s \in SeqsUpTo(RawInventoryRow, 1)}

\* the raw data before preprocess_data.py runs: one year's directory of at
\* most one file of at most one row, an inventory of at most one row, and no
\* cleaned_data file
InitPipeline ==
    /\ \E year \in Years : RawSalesOf(year, 1, 1)
    /\ raw_inventory \in RawInventory
    /\ cleaned_data = {}
    /\ returned = [t \in Targets |-> "not_called"]
    /\ loaded = [t \in Targets |-> NotCalled]
    /\ NoTables
    /\ NoCutoffs

\* success_inventory = preprocess_inventory_data()
PreprocessInventory ==
    /\ returned["inventory"] = "not_called"
    /\ LET result == preprocess_inventory_data(raw_inventory)
       IN  /\ returned' = [returned EXCEPT !["inventory"] = result.returned]
           /\ cleaned_data' =
                 {f \in cleaned_data : \A w \in result.written : f.path # w.path}
                     \cup result.written
    /\ UNCHANGED <<table_vars, cutoff_vars, raw_sales, raw_inventory, loaded>>

\* the dashboard run after preprocess_data.py: load_sales_data(year, cutoff)
LoadPreprocessedSales(year, cutoff_date) ==
    /\ returned[year] # "not_called"
    /\ LoadSales(year, cutoff_date)

\* inventory_df = load_inventory_data()
LoadInventory ==
    /\ returned["inventory"] # "not_called"
    /\ loaded["inventory"] = NotCalled
    /\ loaded' = [loaded EXCEPT !["inventory"] = load_inventory_data]
    /\ UNCHANGED <<table_vars, cutoff_vars, raw_sales, raw_inventory, cleaned_data, returned>>

NextPipeline ==
    \/ \E year \in Years : PreprocessSales(year)
    \/ PreprocessInventory
    \/ \E year \in Years : \E cutoff_date \in CutoffOf(year) :
          LoadPreprocessedSales(year, cutoff_date)
    \/ LoadInventory

SpecPipeline == InitPipeline /\ [][NextPipeline]_vars

\* C16: starting with no cleaned_data file, once preprocess_sales_data(year)
\* has returned True, load_sales_data(year) finds its file (and without a
\* cutoff returns the records written); once preprocess_inventory_data has
\* returned True, load_inventory_data finds its file and returns the
\* records written.
C16_PipelineHandOff ==
    /\ \A year \in Years :
          (returned[year] = "True" /\ loaded[year] # NotCalled) =>
              /\ loaded[year].status # "not_found"
              /\ loaded[year].cutoff_date = None => loaded[year].rows = Written(year)
    /\ (returned["inventory"] = "True" /\ loaded["inventory"] # NotCalled) =>
          /\ loaded["inventory"].status # "not_found"
          /\ exists(inventory_parquet)
          /\ loaded["inventory"].rows = read(inventory_parquet).rows

\* C11: when a record without sku or without asin is among the records, a
\* call does not return a table that is short of that record's quantity: a
\* table that is returned accounts for the quantity of every record given.
MalformedGiven ==
    \E i \in DOMAIN year_2024_data :
        year_2024_data[i].sku = NaN \/ year_2024_data[i].asin = NaN

C11_FailFastOnMissingKey ==
    MalformedGiven =>
        /\ comparison_df.status = "ok" =>
              SumOver(DOMAIN comparison_df.rows,
                      [i \in DOMAIN comparison_df.rows |-> comparison_df.rows[i].Total_2024])
                = SumOver(DOMAIN year_2024_data,
                          [i \in DOMAIN year_2024_data |-> year_2024_data[i].quantity])
        /\ sku_level_df.status = "ok" =>
              SumOver(DOMAIN sku_level_df.rows,
                      [i \in DOMAIN sku_level_df.rows |-> sku_level_df.rows[i].total_2024])
                = SumOver(DOMAIN year_2024_data,
                          [i \in DOMAIN year_2024_data |-> year_2024_data[i].quantity])

====
